---- MODULE Spec2Model ----
(***************************************************************************)
(* itmdump: the ITM packet decoder (read_packet) and the stream loop of    *)
(* run() in src/bin/itmdump.rs.                                            *)
(*                                                                         *)
(* The input stream is a byte sequence `src` with a read cursor `pos`; the *)
(* environment may append bytes to it while the loop is alive (a pipe or a *)
(* file that is still being written).  The sink is the byte sequence       *)
(* written to standard output.                                             *)
(***************************************************************************)
EXTENDS Integers, Sequences, FiniteSets, TLC

\* ------------------------------------------------------------------ bounds

\* Longest source the stream loop is run on.
MaxLen == 4

\* Most bytes that follow the header in the inputs of the decoder harness.
MaxTail == 4

\* ------------------------------------------------------- program constants

MAX_PAYLOAD_SIZE == 4

\* ------------------------------------------------------------ byte domains

\* u8
Byte == 0 .. 255

\* Bytes the environment appends to the source of the stream loop:
\*   1 = port 0, 1 byte     2 = port 0, 2 bytes
\*   4 = low bits 100       9 = port 1, 1 byte
\* (every header byte, and the 4-byte payloads, are met in SpecDecode).
LoopBytes == {1, 2, 4, 9}

\* Bytes that follow the header in the inputs of the decoder harness.
TailBytes == {0, 9, 255}

\* Stimulus ports the loop is configured with (--stimulus parses a u8).
Ports == {0, 1, 32}

\* Placeholder in an outcome that carries no header byte.
NoByte == -1

\* ---------------------------------------------------------------- state

VARIABLES
    follow,     \* run: `follow`, --follow given
    port,       \* run: `port`, the target stimulus port
    src,        \* the bytes the input stream holds so far
    pos,        \* how many of them have been consumed
    sink,       \* the bytes accepted by stdout
    nwrites,    \* how many stdout.write_all calls returned Ok
    state,      \* where run() is: Reading, Retrying, TerminatedSuccess, TerminatedFailure
    p,          \* run: `p`, the outcome of the latest read_packet
    start,      \* where the cursor was when the latest read_packet began
    partial,    \* some read_packet ended in UnexpectedEof after consuming bytes
    fault       \* the input stream or stdout has reported a failure

vars == <<follow, port, src, pos, sink, nwrites, state, p, start, partial, fault>>

\* ---------------------------------------------------------- bit operations

\* x >> n on a u8
Shr(x, n) == x \div (2 ^ n)

\* x & (2^n - 1) on a u8
LowBits(x, n) == x % (2 ^ n)

\* ------------------------------------------------------------ read_exact

\* Mutant: a short read consumes nothing (the bytes stay for the retry).
read_exact_keep(s, at, n, fails) ==
    IF fails
        THEN [res |-> "Err", buf |-> <<>>, pos |-> at]
    ELSE IF at + n <= Len(s)
        THEN [res |-> "Ok", buf |-> SubSeq(s, at + 1, at + n), pos |-> at + n]
    ELSE [res |-> "UnexpectedEof", buf |-> <<>>, pos |-> at]

\* Mutant: a single read() in place of read_exact(): a short read is not an
\* error and the rest of the zeroed buffer is returned as it was.
read_exact_short(s, at, n, fails) ==
    IF fails
        THEN [res |-> "Err", buf |-> <<>>, pos |-> at]
    ELSE IF at + n <= Len(s)
        THEN [res |-> "Ok", buf |-> SubSeq(s, at + 1, at + n), pos |-> at + n]
    ELSE [res |-> "Ok",
          buf |-> SubSeq(s, at + 1, Len(s)) \o [i \in 1 .. (at + n - Len(s)) |-> 0],
          pos |-> Len(s)]

\* Read::read_exact(buf) with buf.len() = n on the stream (s, at): `fails` is
\* the stream reporting an error other than end of file.  On a short stream
\* every byte that was there is consumed and the result is UnexpectedEof.
read_exact(s, at, n, fails) ==
    IF fails
        THEN [res |-> "Err", buf |-> <<>>, pos |-> at]
    ELSE IF at + n <= Len(s)
        THEN [res |-> "Ok", buf |-> SubSeq(s, at + 1, at + n), pos |-> at + n]
    ELSE [res |-> "UnexpectedEof", buf |-> <<>>, pos |-> Len(s)]

\* ----------------------------------------------------------- read_packet

\* Mutant: the port taken from the upper six bits (header >> 2).
PacketPort_shr2(header) == Shr(header, 2)

\* header >> 3
PacketPort(header) == Shr(header, 3)

\* Mutant: a data packet is a header with bit 0 set (0b010 left out).
IsDataPacket_odd(header) == LowBits(header, 3) \in {1, 3}

\* Mutant: the discriminant masked with 0b11 instead of 0b111.
IsDataPacket_mask2(header) == LowBits(header, 2) \in {1, 2, 3}

\* match header & 0b111 { 0b01|0b10|0b11 => data packet, _ => unknown }
IsDataPacket(header) == LowBits(header, 3) \in {1, 2, 3}

\* Mutant: the size code taken as the size (0b11 => 3).
payload_size_code(header) == LowBits(header, 2)

\* match header & 0b11 { 0b01 => 1, 0b10 => 2, 0b11 => 4, _ => unknown (0 here) }
payload_size(header) ==
    CASE LowBits(header, 2) = 1 -> 1
      [] LowBits(header, 2) = 2 -> 2
      [] LowBits(header, 2) = 3 -> 4
      [] OTHER -> 0

\* The results of read_packet.
OkPacket(header, payload) ==
    [kind |-> "Ok", header |-> header, port |-> PacketPort(header), payload |-> payload]

UnknownHeader(header) ==
    [kind |-> "UnknownHeader", header |-> header, port |-> NoByte, payload |-> <<>>]

IoError(res) ==
    [kind |-> IF res = "UnexpectedEof" THEN "EndOfInput" ELSE "IoFailure",
     header |-> NoByte, port |-> NoByte, payload |-> <<>>]

\* packet.payload.push(0).expect(..) on a full buffer: the thread panics and
\* the process is gone, so the loop has no step for this outcome.
Panicked == [kind |-> "Panic", header |-> NoByte, port |-> NoByte, payload |-> <<>>]

NoPacket == [kind |-> "None", header |-> NoByte, port |-> NoByte, payload |-> <<>>]

\* Where the stream reports a failure during one read_packet, if it does.
IoFaults == {"none", "header", "payload"}

\* The stream fails only where a read is made: a fault placed at the payload
\* read happens only in a call of read_packet that gets that far.
FaultHappens(io, r) == io = "none" \/ r.out.kind = "IoFailure"

\* read_packet(input): the outcome and the cursor it leaves.
read_packet(s, at, io) ==
    LET h == read_exact(s, at, 1, io = "header") IN
    IF h.res # "Ok"
        THEN [out |-> IoError(h.res), pos |-> h.pos]
    ELSE LET header == h.buf[1] IN
        IF IsDataPacket(header)
            THEN IF payload_size(header) = 0
                     THEN [out |-> UnknownHeader(header), pos |-> h.pos]
                 ELSE IF payload_size(header) > MAX_PAYLOAD_SIZE
                     THEN [out |-> Panicked, pos |-> h.pos]
                 ELSE LET b == read_exact(s, h.pos, payload_size(header), io = "payload") IN
                     IF b.res # "Ok"
                         THEN [out |-> IoError(b.res), pos |-> b.pos]
                     ELSE [out |-> OkPacket(header, b.buf), pos |-> b.pos]
        ELSE [out |-> UnknownHeader(header), pos |-> h.pos]

\* ------------------------------------------------------------------- run

Init ==
    /\ follow \in BOOLEAN
    /\ port \in Ports
    /\ src = <<>>
    /\ pos = 0
    /\ sink = <<>>
    /\ nwrites = 0
    /\ state = "Reading"
    /\ p = NoPacket
    /\ start = 0
    /\ partial = FALSE
    /\ fault = FALSE

\* Mutant: the port filter left out.
PortMatches_any(packet) == TRUE

\* if p.port == port { ... }
PortMatches(packet) == packet.port = port

\* Mutant: write() in place of write_all(): one byte is accepted and the
\* call counts as done.
write_once(out, buf) == out \o SubSeq(buf, 1, 1)

\* stdout.write_all(&p.payload) returning Ok: the whole payload, in order.
write_all(out, buf) == out \o buf

\* Ok(p): route the payload; a failed write_all returns the error from run
\* after stdout accepted some of the payload, but not all of it.
OnPacket ==
    /\ state = "Reading"
    /\ \E io \in IoFaults :
        LET r == read_packet(src, pos, io) IN
        /\ FaultHappens(io, r)
        /\ r.out.kind = "Ok"
        /\ p' = r.out
        /\ pos' = r.pos
        /\ start' = pos
        /\ IF PortMatches(r.out)
              THEN \/ /\ sink' = write_all(sink, r.out.payload)
                      /\ nwrites' = nwrites + 1
                      /\ state' = "Reading"
                      /\ fault' = (fault \/ io # "none")
                   \/ /\ \E k \in 0 .. (Len(r.out.payload) - 1) :
                             sink' = sink \o SubSeq(r.out.payload, 1, k)
                      /\ nwrites' = nwrites
                      /\ state' = "TerminatedFailure"
                      /\ fault' = TRUE
              ELSE /\ UNCHANGED <<sink, nwrites, state>>
                   /\ fault' = (fault \/ io # "none")
    /\ UNCHANGED <<follow, port, src, partial>>

\* Mutant: an unknown header is returned from run like any other error.
OnUnknownHeader_fatal ==
    /\ state = "Reading"
    /\ \E io \in IoFaults :
        LET r == read_packet(src, pos, io) IN
        /\ FaultHappens(io, r)
        /\ r.out.kind = "UnknownHeader"
        /\ fault' = (fault \/ io # "none")
        /\ p' = r.out
        /\ pos' = r.pos
        /\ start' = pos
    /\ state' = "TerminatedFailure"
    /\ UNCHANGED <<follow, port, src, sink, nwrites, partial>>

\* Mutant: the unknown header byte is put back: the next read sees it again.
OnUnknownHeader_stuck ==
    /\ state = "Reading"
    /\ \E io \in IoFaults :
        LET r == read_packet(src, pos, io) IN
        /\ FaultHappens(io, r)
        /\ r.out.kind = "UnknownHeader"
        /\ fault' = (fault \/ io # "none")
        /\ p' = r.out
        /\ pos' = pos
        /\ start' = pos
    /\ UNCHANGED <<follow, port, src, sink, nwrites, state, partial>>

\* Err(UnknownHeader(_)): debug!() and continue.
OnUnknownHeader ==
    /\ state = "Reading"
    /\ \E io \in IoFaults :
        LET r == read_packet(src, pos, io) IN
        /\ FaultHappens(io, r)
        /\ r.out.kind = "UnknownHeader"
        /\ fault' = (fault \/ io # "none")
        /\ p' = r.out
        /\ pos' = r.pos
        /\ start' = pos
    /\ UNCHANGED <<follow, port, src, sink, nwrites, state, partial>>

\* Mutant: the follow flag is not looked at: the end of input always returns Ok(()).
OnEndOfInput_noFollow ==
    /\ state = "Reading"
    /\ \E io \in IoFaults :
        LET r == read_packet(src, pos, io) IN
        /\ FaultHappens(io, r)
        /\ r.out.kind = "EndOfInput"
        /\ fault' = (fault \/ io # "none")
        /\ p' = r.out
        /\ pos' = r.pos
        /\ start' = pos
        /\ partial' = (partial \/ r.pos # pos)
    /\ state' = "TerminatedSuccess"
    /\ UNCHANGED <<follow, port, src, sink, nwrites>>

\* Mutant: no arm for UnexpectedEof, which then falls to `Err(e) => return Err(e)`.
OnEndOfInput_fatal ==
    /\ state = "Reading"
    /\ \E io \in IoFaults :
        LET r == read_packet(src, pos, io) IN
        /\ FaultHappens(io, r)
        /\ r.out.kind = "EndOfInput"
        /\ fault' = (fault \/ io # "none")
        /\ p' = r.out
        /\ pos' = r.pos
        /\ start' = pos
        /\ partial' = (partial \/ r.pos # pos)
    /\ state' = "TerminatedFailure"
    /\ UNCHANGED <<follow, port, src, sink, nwrites>>

\* Err(Io(e)) if e.kind() == UnexpectedEof: sleep when following, else return Ok(()).
OnEndOfInput ==
    /\ state = "Reading"
    /\ \E io \in IoFaults :
        LET r == read_packet(src, pos, io) IN
        /\ FaultHappens(io, r)
        /\ r.out.kind = "EndOfInput"
        /\ fault' = (fault \/ io # "none")
        /\ p' = r.out
        /\ pos' = r.pos
        /\ start' = pos
        /\ partial' = (partial \/ r.pos # pos)
    /\ state' = IF follow THEN "Retrying" ELSE "TerminatedSuccess"
    /\ UNCHANGED <<follow, port, src, sink, nwrites>>

\* Mutant: every Io error is taken for the end of input and retried when following.
OnIoFailure_retry ==
    /\ state = "Reading"
    /\ \E io \in IoFaults :
        LET r == read_packet(src, pos, io) IN
        /\ FaultHappens(io, r)
        /\ r.out.kind = "IoFailure"
        /\ fault' = (fault \/ io # "none")
        /\ p' = r.out
        /\ pos' = r.pos
        /\ start' = pos
    /\ state' = IF follow THEN "Retrying" ELSE "TerminatedSuccess"
    /\ UNCHANGED <<follow, port, src, sink, nwrites, partial>>

\* Err(e) => return Err(e)
OnIoFailure ==
    /\ state = "Reading"
    /\ \E io \in IoFaults :
        LET r == read_packet(src, pos, io) IN
        /\ FaultHappens(io, r)
        /\ r.out.kind = "IoFailure"
        /\ fault' = (fault \/ io # "none")
        /\ p' = r.out
        /\ pos' = r.pos
        /\ start' = pos
    /\ state' = "TerminatedFailure"
    /\ UNCHANGED <<follow, port, src, sink, nwrites, partial>>

\* Mutant: the stream is rewound before the retry.
Pause_rewind ==
    /\ state = "Retrying"
    /\ state' = "Reading"
    /\ pos' = 0
    /\ UNCHANGED <<follow, port, src, sink, nwrites, p, start, partial, fault>>

\* thread::sleep(Duration::from_millis(100)) returns: next iteration of the loop.
Pause ==
    /\ state = "Retrying"
    /\ state' = "Reading"
    /\ UNCHANGED <<follow, port, src, pos, sink, nwrites, p, start, partial, fault>>

Terminated == state \in {"TerminatedSuccess", "TerminatedFailure"}

\* The writer of the pipe or file appends one byte.
AppendByte ==
    /\ ~Terminated
    /\ Len(src) < MaxLen
    /\ \E b \in LoopBytes : src' = Append(src, b)
    /\ UNCHANGED <<follow, port, pos, sink, nwrites, state, p, start, partial, fault>>

Next ==
    \/ OnPacket
    \/ OnUnknownHeader
    \/ OnEndOfInput
    \/ OnIoFailure
    \/ Pause
    \/ AppendByte

Spec == Init /\ [][Next]_vars

\* One thread runs the loop: it always takes its next step (a read returns,
\* the sleep ends).  What the writer of the source does is not scheduled.
Step ==
    \/ OnPacket
    \/ OnUnknownHeader
    \/ OnEndOfInput
    \/ OnIoFailure
    \/ Pause

FairSpec == Spec /\ WF_vars(Step)

\* ------------------------------------------------- read_packet on its own

\* Every sequence of at most MaxTail bytes of TailBytes.
Tails == UNION {[1 .. n -> TailBytes] : n \in 0 .. MaxTail}

\* The empty stream, and every header byte followed by one of the tails.
DecodeInputs == {<<>>} \cup {<<h>> \o t : h \in Byte, t \in Tails}

InitDecode ==
    /\ follow = FALSE
    /\ port = 0
    /\ src \in DecodeInputs
    /\ pos = 0
    /\ sink = <<>>
    /\ nwrites = 0
    /\ state = "Reading"
    /\ p = NoPacket
    /\ start = 0
    /\ partial = FALSE
    /\ fault = FALSE

\* One call of read_packet on a fresh stream.
Decode ==
    /\ p.kind = "None"
    /\ \E io \in IoFaults :
        LET r == read_packet(src, pos, io) IN
        /\ FaultHappens(io, r)
        /\ fault' = (fault \/ io # "none")
        /\ p' = r.out
        /\ pos' = r.pos
        /\ start' = pos
    /\ UNCHANGED <<follow, port, src, sink, nwrites, state, partial>>

SpecDecode == InitDecode /\ [][Decode]_vars

\* ------------------------------------------ the loop on every header byte

\* Target ports at and above the largest port a header can name.
RoutePorts == {31, 32, 255}

\* run on a stream that holds a header byte and a tail and does not grow.
InitRoute ==
    /\ follow \in BOOLEAN
    /\ port \in RoutePorts
    /\ src \in DecodeInputs
    /\ pos = 0
    /\ sink = <<>>
    /\ nwrites = 0
    /\ state = "Reading"
    /\ p = NoPacket
    /\ start = 0
    /\ partial = FALSE
    /\ fault = FALSE

SpecRoute == InitRoute /\ [][Step]_vars

\* ================================================================ claims

\* The wire format as the specification states it: low three bits 001, 010,
\* 011 announce 1, 2, 4 payload bytes; anything else is no data packet (0).
WireSize(h) ==
    CASE h % 8 = 1 -> 1
      [] h % 8 = 2 -> 2
      [] h % 8 = 3 -> 4
      [] OTHER -> 0

\* The header byte under the cursor.
HeaderAt(s, at) == s[at + 1]

\* A byte sequence made of complete data packets only.
RECURSIVE AllPackets(_)
AllPackets(s) ==
    IF s = <<>> THEN TRUE
    ELSE /\ WireSize(s[1]) > 0
         /\ Len(s) >= 1 + WireSize(s[1])
         /\ AllPackets(SubSeq(s, 2 + WireSize(s[1]), Len(s)))

\* A byte sequence made of complete data packets and unknown header bytes.
RECURSIVE WellFramed(_)
WellFramed(s) ==
    IF s = <<>> THEN TRUE
    ELSE IF WireSize(s[1]) = 0 THEN WellFramed(Tail(s))
    ELSE /\ Len(s) >= 1 + WireSize(s[1])
         /\ WellFramed(SubSeq(s, 2 + WireSize(s[1]), Len(s)))

\* How many data packets of the well-framed sequence s come from port t.
RECURSIVE Matching(_, _)
Matching(s, t) ==
    IF s = <<>> THEN 0
    ELSE IF WireSize(s[1]) = 0 THEN Matching(Tail(s), t)
    ELSE (IF s[1] \div 8 = t THEN 1 ELSE 0)
         + Matching(SubSeq(s, 2 + WireSize(s[1]), Len(s)), t)

\* The payloads of the data packets of port t in the well-framed sequence s,
\* one after the other.
RECURSIVE Routed(_, _)
Routed(s, t) ==
    IF s = <<>> THEN <<>>
    ELSE IF WireSize(s[1]) = 0 THEN Routed(Tail(s), t)
    ELSE (IF s[1] \div 8 = t THEN SubSeq(s, 2, 1 + WireSize(s[1])) ELSE <<>>)
         \o Routed(SubSeq(s, 2 + WireSize(s[1]), Len(s)), t)

\* A step of SpecDecode or Spec in which read_packet ran and the stream
\* reported no failure.
ReadPacketStep ==
    /\ state = "Reading"
    /\ src' = src
    /\ ~fault'

\* C1: for every header byte h with h & 0b111 in {1,2,3}, read_packet on a
\* stream holding h followed by (at least) the 1, 2 or 4 bytes it announces
\* returns Ok(Packet) with port = h >> 3, header = h and the payload equal to
\* those bytes in stream order, and leaves the cursor right after them.
C1_DataPacketDecoded ==
    [][(/\ ReadPacketStep
        /\ pos < Len(src)
        /\ WireSize(HeaderAt(src, pos)) > 0
        /\ Len(src) - (pos + 1) >= WireSize(HeaderAt(src, pos)))
       => LET h == HeaderAt(src, pos)
              k == WireSize(h) IN
          /\ p'.kind = "Ok"
          /\ p'.header = h
          /\ p'.port = h \div 8
          /\ p'.payload = SubSeq(src, pos + 2, pos + 1 + k)
          /\ pos' = pos + 1 + k]_vars

\* Header 0xFB (port 31, size code 11) followed by exactly 4 bytes was decoded.
C1_Witness ==
    /\ p.kind = "Ok"
    /\ src[1] = 251
    /\ Len(src) = 5
    /\ Len(p.payload) = 4
    /\ p.payload[1] # p.payload[4]

\* C2: for every header byte h with h & 0b111 not in {1,2,3}, read_packet
\* returns UnknownHeader(h) and advances the cursor by exactly one byte,
\* whatever bytes follow h.
C2_UnknownHeaderOneByte ==
    [][(/\ ReadPacketStep
        /\ pos < Len(src)
        /\ HeaderAt(src, pos) % 8 \notin {1, 2, 3})
       => /\ p'.kind = "UnknownHeader"
          /\ p'.header = HeaderAt(src, pos)
          /\ pos' = pos + 1]_vars

\* Header 0xFD (low bits 101) with four bytes behind it was rejected.
C2_Witness ==
    /\ p.kind = "UnknownHeader"
    /\ p.header = 253
    /\ pos = 1
    /\ Len(src) = 5

\* C7: read_packet on a stream with no byte available returns EndOfInput
\* and leaves the cursor where it was.
C7_EmptyIsEndOfInput ==
    [][(ReadPacketStep /\ pos = Len(src))
       => (p'.kind = "EndOfInput" /\ pos' = pos)]_vars

\* End of input met at a packet boundary after some bytes were consumed.
C7_Witness ==
    /\ p.kind = "EndOfInput"
    /\ start = pos
    /\ pos = Len(src)
    /\ pos >= 2

\* C8: a data-packet header followed by fewer bytes than it announces makes
\* read_packet return EndOfInput, never Ok(Packet) nor UnknownHeader.
C8_TruncatedIsEndOfInput ==
    [][(/\ ReadPacketStep
        /\ pos < Len(src)
        /\ WireSize(HeaderAt(src, pos)) > 0
        /\ Len(src) - (pos + 1) < WireSize(HeaderAt(src, pos)))
       => p'.kind = "EndOfInput"]_vars

\* Header 0xFB (4 bytes announced) with 3 bytes behind it ended in EndOfInput.
C8_Witness ==
    /\ p.kind = "EndOfInput"
    /\ start = 0
    /\ Len(src) = 4
    /\ src[1] = 251


\* C3: with follow disabled, when the source is N complete data packets and
\* then a clean end of input, and neither stream reports a failure, run has
\* made exactly one write per packet of the target port (none for the
\* others), has consumed the whole source, and returns Ok; and without follow
\* the loop always comes to an end.
C3_Final ==
    (~follow /\ Terminated /\ AllPackets(src) /\ ~fault)
    => /\ state = "TerminatedSuccess"
       /\ p.kind = "EndOfInput"
       /\ pos = Len(src)
       /\ nwrites = Matching(src, port)
       /\ sink = Routed(src, port)

C3_NonFollowRun == []C3_Final /\ (~follow ~> Terminated)

\* A packet of the target port and one of another port were read to the
\* clean end of input.
C3_Witness ==
    /\ ~follow
    /\ state = "TerminatedSuccess"
    /\ AllPackets(src)
    /\ Len(src) >= 4
    /\ nwrites = 1
    /\ Matching(src, 1 - port) = 1

\* C5: port filtering: a step of the loop that decodes a packet whose port
\* (header >> 3) differs from the target port writes nothing to the sink and
\* leaves the loop reading.
C5_OtherPortNotWritten ==
    [][(/\ state = "Reading"
        /\ src' = src
        /\ p'.kind = "Ok"
        /\ HeaderAt(src, pos) \div 8 # port)
       => /\ sink' = sink
          /\ nwrites' = nwrites
          /\ state' = "Reading"]_vars

\* With target port 0, header 0b00001001 (port 1) and its payload were
\* dropped and the packet of port 0 behind them was written.
C5_Witness ==
    /\ port = 0
    /\ Len(src) = 4
    /\ src[1] = 9
    /\ p.kind = "Ok"
    /\ p.header = 1
    /\ pos = 4
    /\ sink = <<src[4]>>
    /\ nwrites = 1

\* C6: as long as every read_packet so far ended in Ok(Packet), in
\* UnknownHeader or at a clean end of input (no packet was cut short) and no
\* stream failed, the consumed prefix of the source is made of complete
\* packets and unknown headers, and the sink holds exactly the payloads of
\* its packets of the target port, whole and in source order.
C6_SinkIsRoutedPayloads ==
    (~partial /\ ~fault)
    => /\ WellFramed(SubSeq(src, 1, pos))
       /\ sink = Routed(SubSeq(src, 1, pos), port)

\* An unknown header, then a 2-byte packet of the target port, were consumed.
C6_Witness ==
    /\ ~partial
    /\ ~fault
    /\ pos = 4
    /\ src[1] = 4
    /\ src[2] = 2
    /\ Len(sink) = 2
    /\ sink[1] # sink[2]

\* C9: a failure of the source other than end of input ends the loop with
\* failure in the step it occurs, following or not, with nothing written;
\* after that step nothing changes any more.
C9_IoFailureIsFatal ==
    [][/\ (~fault /\ fault' /\ p'.kind # "Ok")
          => /\ p'.kind = "IoFailure"
             /\ state' = "TerminatedFailure"
             /\ sink' = sink
             /\ nwrites' = nwrites
       /\ state # "TerminatedFailure"]_vars

\* While following, the source failed in the payload read of a packet, after
\* another packet had been written.
C9_Witness ==
    /\ follow
    /\ state = "TerminatedFailure"
    /\ p.kind = "IoFailure"
    /\ pos = start + 1
    /\ nwrites = 1

\* C4: the loop follows, has met the end of input at a packet boundary (the
\* read consumed nothing), and a complete data packet of the target port
\* has since been appended at the cursor.
C4_Pending ==
    /\ follow
    /\ state \in {"Retrying", "Reading"}
    /\ p.kind = "EndOfInput"
    /\ start = pos
    /\ pos < Len(src)
    /\ WireSize(src[pos + 1]) > 0
    /\ src[pos + 1] \div 8 = port
    /\ Len(src) >= pos + 1 + WireSize(src[pos + 1])

\* The packet read last is of the target port and its payload is the end of
\* the sink.
C4_Written ==
    /\ state = "Reading"
    /\ p.kind = "Ok"
    /\ src[start + 1] \div 8 = port
    /\ pos = start + 1 + WireSize(src[start + 1])
    /\ Len(sink) >= pos - (start + 1)
    /\ SubSeq(sink, Len(sink) - (pos - (start + 1)) + 1, Len(sink))
           = SubSeq(src, start + 2, pos)

\* C4: with follow enabled, after an end of input at a packet boundary, a
\* complete packet of the target port that is appended is eventually written
\* to the sink, unless a stream reports a failure first: the loop does not
\* return in between; while it pauses (Retrying) it reads and writes
\* nothing, so the read that finds the packet comes after the pause; and
\* that read appends exactly the packet's payload to the sink.
C4_PauseThenRead ==
    /\ state = "Retrying"
       => (state' \in {"Retrying", "Reading"} /\ pos' = pos /\ sink' = sink /\ p' = p)
    /\ (C4_Pending /\ state = "Reading" /\ src' = src /\ ~fault')
       => /\ state' = "Reading"
          /\ pos' = pos + 1 + WireSize(src[pos + 1])
          /\ sink' = sink \o SubSeq(src, pos + 2, pos')
          /\ nwrites' = nwrites + 1

C4_FollowPicksUpAppended ==
    /\ C4_Pending ~> (C4_Written \/ fault)
    /\ [][C4_PauseThenRead]_vars

\* After a packet and an end of input, a second packet was appended, read
\* and written.
C4_Witness ==
    /\ follow
    /\ partial = FALSE
    /\ p.kind = "Ok"
    /\ start = 2
    /\ pos = 4
    /\ nwrites = 2
    /\ sink = <<src[2], src[4]>>

\* C10: with follow enabled run never returns Ok: each end of input puts the
\* loop in Retrying, where the cursor stays put; the pause ends, and another
\* read_packet is made; this goes on for as long as no stream fails.
C10_EndOfInputPauses ==
    /\ (follow /\ state = "Reading" /\ src' = src /\ p'.kind = "EndOfInput")
       => state' = "Retrying"
    /\ state = "Retrying"
       => (pos' = pos /\ state' \in {"Retrying", "Reading"})

C10_FollowNeverSucceeds ==
    /\ [](follow => state # "TerminatedSuccess")
    /\ [][C10_EndOfInputPauses]_vars
    /\ (follow /\ state = "Retrying") ~> (state = "Reading" /\ p.kind = "EndOfInput")
    /\ (follow /\ state = "Reading" /\ p.kind = "EndOfInput")
          ~> (state # "Reading" \/ p.kind # "EndOfInput")

\* The loop is back at reading after a pause, with the whole source consumed.
C10_Witness ==
    /\ follow
    /\ state = "Reading"
    /\ p.kind = "EndOfInput"
    /\ pos = Len(src)
    /\ pos = MaxLen

\* C11: with follow enabled, an end of input that cuts a packet short
\* consumes every byte that was there (header and partial payload), writes
\* nothing and puts the loop in Retrying; the cursor never moves back, so
\* those bytes are not read again; and the read_packet after such an end of
\* input takes the byte at the cursor, the next one to arrive, as a header.
C11_CutShort ==
    /\ follow
    /\ state = "Reading"
    /\ src' = src
    /\ pos < Len(src)
    /\ WireSize(src[pos + 1]) > 0
    /\ Len(src) < pos + 1 + WireSize(src[pos + 1])
    /\ ~fault'

C11_AfterCutShort ==
    /\ follow
    /\ state = "Reading"
    /\ src' = src
    /\ p.kind = "EndOfInput"
    /\ start < pos
    /\ pos < Len(src)
    /\ ~fault'

C11_Step ==
    /\ pos' >= pos
    /\ C11_CutShort
       => /\ p'.kind = "EndOfInput"
          /\ pos' = Len(src)
          /\ sink' = sink
          /\ nwrites' = nwrites
          /\ state' = "Retrying"
    /\ C11_AfterCutShort
       => /\ start' = pos
          /\ p'.kind \in {"Ok", "UnknownHeader", "EndOfInput"}
          /\ p'.kind # "EndOfInput" => p'.header = src[pos + 1]
          /\ WireSize(src[pos + 1]) = 0 => p'.kind = "UnknownHeader"

C11_FollowLosesPartialPacket == [][C11_Step]_vars

\* Header 2 and one of its two payload bytes met the end of input; the byte
\* that arrived next was read as a header, and nothing was written.
C11_Witness ==
    /\ follow
    /\ port = 0
    /\ partial
    /\ Len(src) = 3
    /\ src[1] = 2
    /\ start = 2
    /\ pos = 3
    /\ p.kind = "UnknownHeader"
    /\ p.header = src[3]
    /\ sink = <<>>

\* The payload size a two-bit size code stands for.
CodeSize(c) ==
    CASE c = 1 -> 1
      [] c = 2 -> 2
      [] c = 3 -> 4
      [] OTHER -> 0

\* C12 as stated: every header accepted as a data packet has bit 0 set and
\* its size code in bits 2-1, and as many payload bytes are read as that
\* code says.
C12_AsStated ==
    p.kind = "Ok"
    => /\ src[1] % 2 = 1
       /\ Len(p.payload) = CodeSize((src[1] \div 2) % 4)

\* C12, amended: every header accepted as a data packet has bit 2 clear and
\* its size code in bits 1-0 (01 -> 1 byte, 10 -> 2, 11 -> 4), and as many
\* payload bytes are read as that code says.
C12_SizeCodeInBits10 ==
    p.kind = "Ok"
    => /\ (src[1] \div 4) % 2 = 0
       /\ src[1] % 4 \in {1, 2, 3}
       /\ Len(p.payload) = CodeSize(src[1] % 4)
       /\ pos = 1 + CodeSize(src[1] % 4)

\* Header 0x0A (port 1, bits 1-0 = 10, bit 0 clear) was accepted with 2 bytes.
C12_Witness ==
    /\ p.kind = "Ok"
    /\ src[1] = 10
    /\ Len(p.payload) = 2
    /\ pos = 3

\* C13 as stated: header 0x02 yields UnknownHeader(0x02) and no payload byte
\* is read.
C13_AsStated ==
    (p.kind # "None" /\ ~fault /\ Len(src) >= 1 /\ src[1] = 2)
    => (p.kind = "UnknownHeader" /\ p.header = 2 /\ pos = 1)

\* C13, amended: header 0x02 is a data packet of port 0 with 2 payload
\* bytes: with two bytes behind it read_packet returns Ok(Packet) holding
\* them, with fewer it returns EndOfInput; it never yields UnknownHeader.
C13_Header02IsData ==
    (p.kind # "None" /\ ~fault /\ Len(src) >= 1 /\ src[1] = 2)
    => IF Len(src) >= 3
          THEN /\ p.kind = "Ok"
               /\ p.header = 2
               /\ p.port = 0
               /\ p.payload = SubSeq(src, 2, 3)
               /\ pos = 3
          ELSE p.kind = "EndOfInput"

\* Header 0x02 followed by 9 and 255 was decoded.
C13_Witness ==
    /\ p.kind = "Ok"
    /\ Len(src) >= 3
    /\ src[1] = 2
    /\ p.payload = <<9, 255>>

\* C15: every Packet read_packet returns has a payload of 1, 2 or 4 bytes
\* (never empty, never 3, never more than MAX_PAYLOAD_SIZE), and the push
\* into the buffer never panics.
C15_PayloadLength ==
    /\ p.kind # "Panic"
    /\ p.kind = "Ok" => Len(p.payload) \in {1, 2, 4}
    /\ p.kind = "Ok" => Len(p.payload) = pos - 1

\* Header 0x03 filled the buffer to its capacity.
C15_Witness ==
    /\ p.kind = "Ok"
    /\ src[1] = 3
    /\ Len(p.payload) = 4
    /\ Len(src) = 5

\* C14: the port of every decoded packet is header >> 3, in 0 .. 31, so with
\* a target port in 32 .. 255 no packet matches: nothing is ever written to
\* the sink, whatever the source holds.
C14_HighPortNeverMatches ==
    /\ p.kind = "Ok" => (p.port = src[start + 1] \div 8 /\ p.port \in 0 .. 31)
    /\ port \in 32 .. 255 => (sink = <<>> /\ nwrites = 0)

\* With target port 32, a packet of port 31 (header 0xF9) was decoded and
\* dropped.
C14_Witness ==
    /\ port = 32
    /\ p.kind = "Ok"
    /\ p.header = 249
    /\ p.port = 31
    /\ pos = 2
    /\ sink = <<>>

\* C16: an UnknownHeader outcome stops nothing and writes nothing, in either
\* mode.  A read that meets a byte that is no data-packet header yields
\* UnknownHeader of that byte, takes that one byte, leaves the sink alone and
\* leaves the loop in Reading; the read after it starts at the byte behind
\* the unknown header and takes that byte as its header.
C16_OnUnknown ==
    (state = "Reading" /\ src' = src /\ ~fault'
        /\ pos < Len(src) /\ WireSize(src[pos + 1]) = 0)
    => (/\ p'.kind = "UnknownHeader"
        /\ p'.header = src[pos + 1]
        /\ pos' = pos + 1
        /\ state' = "Reading"
        /\ sink' = sink
        /\ nwrites' = nwrites)

C16_AfterUnknown ==
    (state = "Reading" /\ src' = src /\ p.kind = "UnknownHeader")
    => (/\ pos = start + 1
        /\ start' = pos
        /\ (p'.kind \in {"Ok", "UnknownHeader"} => p'.header = src[start + 2])
        /\ (p'.kind = "Ok" => p'.payload = SubSeq(src, start + 3, pos')))

C16_Step ==
    /\ C16_OnUnknown
    /\ C16_AfterUnknown
    /\ (p'.kind = "UnknownHeader" => state' = "Reading")

C16_UnknownHeaderContinues == [][C16_Step]_vars

\* After the unknown header 0x04 the packet <<0x01, b>> right behind it was
\* decoded and written.
C16_Witness ==
    /\ port = 0
    /\ Len(src) >= 3
    /\ src[1] = 4
    /\ src[2] = 1
    /\ start = 1
    /\ pos = 3
    /\ p.kind = "Ok"
    /\ sink = <<src[3]>>
    /\ state = "Reading"

\* C17: the loop starts in Reading and moves as the state machine says.
\* Retrying is entered only from Reading by a read that ends in EndOfInput
\* with follow set; Terminated(Success) only from Reading by a read that
\* ends in EndOfInput with follow clear; Terminated(Failure) only from
\* Reading by a failing read or write; Retrying is left only for Reading and
\* reads and writes nothing; a read that leaves the loop in Reading decoded a
\* packet or an unknown header; in a Terminated state nothing moves any more.
C17_States == {"Reading", "Retrying", "TerminatedSuccess", "TerminatedFailure"}

C17_Step ==
    /\ ~Terminated
    /\ state' \in C17_States
    /\ (state' = "Retrying" /\ state # "Retrying")
        => (state = "Reading" /\ follow /\ p'.kind = "EndOfInput" /\ ~fault')
    /\ state' = "TerminatedSuccess"
        => (state = "Reading" /\ ~follow /\ p'.kind = "EndOfInput" /\ ~fault')
    /\ state' = "TerminatedFailure"
        => (state = "Reading" /\ fault' /\ p'.kind \in {"IoFailure", "Ok"})
    /\ (state = "Reading" /\ src' = src /\ p'.kind = "EndOfInput")
        => state' = (IF follow THEN "Retrying" ELSE "TerminatedSuccess")
    /\ (state = "Reading" /\ src' = src /\ state' = "Reading")
        => p'.kind \in {"Ok", "UnknownHeader"}
    /\ state = "Retrying"
        => (/\ state' \in {"Retrying", "Reading"}
            /\ pos' = pos /\ sink' = sink /\ nwrites' = nwrites /\ p' = p
            /\ (src' = src => state' = "Reading"))

C17_StateMachine == (state = "Reading") /\ [][C17_Step]_vars

\* A follow run that paused on a cut-short packet, read on, wrote one
\* payload and then ended in Terminated(Failure).
C17_Witness ==
    /\ follow
    /\ partial
    /\ nwrites = 1
    /\ state = "TerminatedFailure"
    /\ fault

\* C18: with follow clear every iteration of the loop takes at least one
\* byte of the source or ends the loop, so the loop ends on every finite
\* source; when no stream fails it ends with Ok(()) at the end of the
\* source, unknown headers and a cut-short last packet included.
C18_Progress ==
    (~follow /\ state = "Reading" /\ src' = src)
    => (pos' > pos \/ Terminated')

C18_CleanEnd ==
    (~follow /\ Terminated /\ ~fault)
    => (state = "TerminatedSuccess" /\ pos = Len(src) /\ p.kind = "EndOfInput")

C18_NonFollowTerminates ==
    /\ [][C18_Progress]_vars
    /\ []C18_CleanEnd
    /\ ((~follow /\ state = "Reading") ~> Terminated)

\* A non-follow run over an unknown header and then a packet cut short has
\* ended with Ok(()).
C18_Witness ==
    /\ ~follow
    /\ ~fault
    /\ state = "TerminatedSuccess"
    /\ partial
    /\ Len(src) = 3
    /\ src[1] = 4
    /\ src[2] = 2
    /\ nwrites = 0

\* C19: when write_all returns Ok the sink grows by the whole payload of the
\* packet just decoded, 1, 2 or 4 bytes, and by nothing else; a read that
\* ends in EndOfInput, UnknownHeader or IoFailure leaves the sink as it was,
\* and so does every read of a packet the source holds only in part.
C19_Grows ==
    (sink' # sink /\ ~fault')
    => (/\ state = "Reading"
        /\ p'.kind = "Ok"
        /\ p'.port = port
        /\ pos < Len(src)
        /\ Len(p'.payload) \in {1, 2, 4}
        /\ Len(p'.payload) = WireSize(src[pos + 1])
        /\ pos' = pos + 1 + Len(p'.payload)
        /\ pos' <= Len(src)
        /\ p'.payload = SubSeq(src, pos + 2, pos')
        /\ sink' = sink \o p'.payload
        /\ nwrites' = nwrites + 1)

C19_NoPacketNoWrite ==
    (p' # p /\ p'.kind \in {"EndOfInput", "UnknownHeader", "IoFailure"})
    => (sink' = sink /\ nwrites' = nwrites)

C19_TruncatedNotWritten ==
    (state = "Reading" /\ src' = src /\ pos < Len(src)
        /\ WireSize(src[pos + 1]) > 0
        /\ Len(src) < pos + 1 + WireSize(src[pos + 1]))
    => (sink' = sink /\ nwrites' = nwrites /\ p'.kind \in {"EndOfInput", "IoFailure"})

C19_Step == C19_Grows /\ C19_NoPacketNoWrite /\ C19_TruncatedNotWritten

C19_WholePayloadsOnly == [][C19_Step]_vars

\* <<0x01, a>> was written whole, then <<0x02, b>> was cut short: the sink
\* holds a and nothing of b.
C19_Witness ==
    /\ port = 0
    /\ Len(src) = 4
    /\ src[1] = 1
    /\ src[3] = 2
    /\ pos = 4
    /\ start = 2
    /\ p.kind = "EndOfInput"
    /\ partial
    /\ sink = <<src[2]>>
    /\ nwrites = 1

\* One pass of the loop with follow clear over the stream s from offset at,
\* where no stream fails: what it adds to out.
RECURSIVE NonFollowPass(_, _, _)
NonFollowPass(s, at, out) ==
    LET r == read_packet(s, at, "none") IN
    IF r.out.kind = "Ok"
        THEN NonFollowPass(s, r.pos,
                 IF PortMatches(r.out) THEN write_all(out, r.out.payload) ELSE out)
    ELSE IF r.out.kind = "UnknownHeader"
        THEN NonFollowPass(s, r.pos, out)
    ELSE out

\* C20: in a follow run where every end of input met so far fell between
\* packets and no stream failed, the sink holds what one non-follow pass
\* over the bytes read so far writes; once the loop has read all the source
\* holds, that is one non-follow pass over the whole source.
C20_FollowEqualsOnePass ==
    (follow /\ ~partial /\ ~fault)
    => (/\ sink = NonFollowPass(SubSeq(src, 1, pos), 0, <<>>)
        /\ (pos = Len(src) /\ p.kind = "EndOfInput")
            => sink = NonFollowPass(src, 0, <<>>))

\* A follow run has written two payloads and waits at the end of a source
\* of two whole packets.
C20_Witness ==
    /\ follow
    /\ ~partial
    /\ ~fault
    /\ port = 0
    /\ state = "Retrying"
    /\ Len(src) = 4
    /\ src[1] = 1
    /\ src[3] = 1
    /\ pos = 4
    /\ nwrites = 2
    /\ sink = <<src[2], src[4]>>
====
